---- MODULE Spec2Model ----
(***************************************************************************)
(* Model of server.py: an HTTP service over one SQLite table `reports`.    *)
(*                                                                         *)
(* Text is a sequence of one-character strings, so that LIKE, TRIM,        *)
(* str.strip and the column affinities are computed character by           *)
(* character. A value (JSON side or SQL side) is a record [t, s, n] with   *)
(* a type tag t, text s and integer n.                                     *)
(***************************************************************************)
EXTENDS Integers, Sequences, FiniteSets, TLC

\* Largest number of rows the table grows to (model bound).
MaxRows == 3

\* The 14 columns of CREATE TABLE reports, in declaration order.
FieldSeq ==
    << "id", "user", "inspectionDate", "manufactureName", "address", "country",
       "city", "pincode", "tacId", "plantInspectionReportNumber",
       "testReportNumber", "packModel", "remark", "createdAt" >>

Fields == { FieldSeq[i] : i \in 1..Len(FieldSeq) }

\* The keys do_GET copies from the query string and query_reports filters on.
FilterKeys == { "tacId", "plantInspectionReportNumber", "testReportNumber", "packModel" }

\* Declared column type: every column is TEXT except createdAt INTEGER.
ColumnType(f) == IF f = "createdAt" THEN "INTEGER" ELSE "TEXT"

---------------------------------------------------------------------------
\* JSON values, as json.loads produces them and payload.get hands them on.

Absent    == [t |-> "absent", s |-> <<>>, n |-> 0]   \* key not in the object
JNull     == [t |-> "null",   s |-> <<>>, n |-> 0]
JStr(txt) == [t |-> "str",    s |-> txt,  n |-> 0]
JInt(k)   == [t |-> "int",    s |-> <<>>, n |-> k]
JList     == [t |-> "list",   s |-> <<>>, n |-> 0]   \* a JSON array (or object)

\* SQLite storage classes of a stored value.
SqlNull      == [t |-> "NULL",    s |-> <<>>, n |-> 0]
SqlText(txt) == [t |-> "TEXT",    s |-> txt,  n |-> 0]
SqlInt(k)    == [t |-> "INTEGER", s |-> <<>>, n |-> k]

---------------------------------------------------------------------------
\* Characters.

DigitSeq == << "0", "1", "2", "3", "4", "5", "6", "7", "8", "9" >>

DigitChars == { DigitSeq[i] : i \in 1..10 }

DigitVal(c) == (CHOOSE i \in 1..10 : DigitSeq[i] = c) - 1

\* ASCII code of the characters the inputs use (memcmp order of TEXT).
Code(c) ==
    CASE c = "\t" -> 9   [] c = " " -> 32  [] c = "%" -> 37  [] c = "-" -> 45
      [] c \in DigitChars -> 48 + DigitVal(c)
      [] c = "A" -> 65   [] c = "B" -> 66  [] c = "C" -> 67  [] c = "M" -> 77
      [] c = "P" -> 80   [] c = "R" -> 82  [] c = "T" -> 84  [] c = "Z" -> 90
      [] c = "_" -> 95   [] c = "a" -> 97  [] c = "b" -> 98  [] c = "c" -> 99
      [] c = "x" -> 120

\* SQLite's LIKE folds the case of ASCII letters only.
Lower(c) ==
    CASE c = "A" -> "a" [] c = "B" -> "b" [] c = "C" -> "c" [] c = "M" -> "m"
      [] c = "P" -> "p" [] c = "R" -> "r" [] c = "T" -> "t" [] c = "Z" -> "z"
      [] OTHER -> c

\* Python's str.strip() removes whitespace; SQL TRIM(X) removes spaces only.
PyWhitespace == { " ", "\t" }
SqlTrimChars == { " " }

RECURSIVE StripLeft(_, _)
StripLeft(txt, chars) ==
    IF txt # <<>> /\ Head(txt) \in chars THEN StripLeft(Tail(txt), chars) ELSE txt

RECURSIVE StripRight(_, _)
StripRight(txt, chars) ==
    IF txt # <<>> /\ txt[Len(txt)] \in chars
    THEN StripRight(SubSeq(txt, 1, Len(txt) - 1), chars)
    ELSE txt

Strip(txt, chars) == StripRight(StripLeft(txt, chars), chars)

---------------------------------------------------------------------------
\* Conversions between storage classes (column affinity).

RECURSIVE NatToText(_)
NatToText(k) ==
    IF k < 10 THEN << DigitSeq[k + 1] >>
    ELSE NatToText(k \div 10) \o << DigitSeq[(k % 10) + 1] >>

IntToText(k) == IF k < 0 THEN << "-" >> \o NatToText(-k) ELSE NatToText(k)

IsDigits(txt) == txt # <<>> /\ \A i \in 1..Len(txt) : txt[i] \in DigitChars

IsIntLiteral(txt) ==
    IF txt # <<>> /\ Head(txt) = "-" THEN IsDigits(Tail(txt)) ELSE IsDigits(txt)

RECURSIVE DigitsToNat(_)
DigitsToNat(txt) ==
    IF txt = <<>> THEN 0
    ELSE 10 * DigitsToNat(SubSeq(txt, 1, Len(txt) - 1)) + DigitVal(txt[Len(txt)])

TextToInt(txt) == IF Head(txt) = "-" THEN -DigitsToNat(Tail(txt)) ELSE DigitsToNat(txt)

\* payload.get(f): None when the object has no key f.
PayloadGet(payload, f) == IF payload[f].t = "absent" THEN JNull ELSE payload[f]

\* sqlite3 binds None as NULL, str as TEXT, int as INTEGER; other types raise.
Bindable(v) == v.t \in { "null", "str", "int" }

Bind(v) ==
    CASE v.t = "str" -> SqlText(v.s)
      [] v.t = "int" -> SqlInt(v.n)
      [] OTHER -> SqlNull

\* A TEXT column stores a number as its decimal text; an INTEGER column
\* stores text that is a well-formed integer literal as that integer.
ApplyAffinity(f, v) ==
    IF ColumnType(f) = "TEXT"
    THEN IF v.t = "INTEGER" THEN SqlText(IntToText(v.n)) ELSE v
    ELSE IF v.t = "TEXT" /\ IsIntLiteral(v.s) THEN SqlInt(TextToInt(v.s)) ELSE v

\* Mutation of RowOf: packModel and remark change places in the parameter tuple.
RowOf_Swapped(payload) ==
    [f \in Fields |->
        ApplyAffinity(f, Bind(PayloadGet(payload,
            IF f = "packModel" THEN "remark" ELSE IF f = "remark" THEN "packModel" ELSE f)))]

\* The row the INSERT stores: payload.get(f) for each of the 14 parameters.
RowOf(payload) == [f \in Fields |-> ApplyAffinity(f, Bind(PayloadGet(payload, f)))]

\* dict(r) followed by json.dumps: NULL -> null, TEXT -> string, INTEGER -> number.
ToJson(v) ==
    CASE v.t = "TEXT" -> JStr(v.s)
      [] v.t = "INTEGER" -> JInt(v.n)
      [] OTHER -> JNull

ItemOf(row) == [f \in Fields |-> ToJson(row[f])]

---------------------------------------------------------------------------
\* The storage layer: INSERT, the filtered SELECT and the two aggregates.
\* A table is the sequence of its committed rows in rowid order.

\* Mutation of UniqueViolation: the id column without its PRIMARY KEY.
UniqueViolation_NoKey(tbl, row) == FALSE

\* Mutation of UniqueViolation: a key that also rejects a second NULL.
UniqueViolation_NullCollides(tbl, row) == \E i \in 1..Len(tbl) : tbl[i]["id"] = row["id"]

\* PRIMARY KEY on a TEXT column: a non-NULL id equal to a stored id violates
\* the constraint; NULL ids are distinct from every id, themselves included.
UniqueViolation(tbl, row) ==
    /\ row["id"].t # "NULL"
    /\ \E i \in 1..Len(tbl) : tbl[i]["id"] = row["id"]

\* X LIKE P without ESCAPE: % matches any run of characters, _ matches any
\* one character, every other character matches itself ignoring ASCII case.
RECURSIVE LikeMatch(_, _)
LikeMatch(pat, txt) ==
    IF pat = <<>> THEN txt = <<>>
    ELSE IF Head(pat) = "%"
         THEN LikeMatch(Tail(pat), txt) \/ (txt # <<>> /\ LikeMatch(pat, Tail(txt)))
    ELSE IF txt = <<>> THEN FALSE
    ELSE IF Head(pat) = "_" THEN LikeMatch(Tail(pat), Tail(txt))
    ELSE Lower(Head(pat)) = Lower(Head(txt)) /\ LikeMatch(Tail(pat), Tail(txt))

\* col LIKE ? as a WHERE term: NULL LIKE P is NULL, which rejects the row.
SqlLike(v, pat) == v.t = "TEXT" /\ LikeMatch(pat, v.s)

\* add_like: v = (filters.get(key) or "").strip(); the result is the text
\* the term is built from, empty when no term is added.
FilterText(filters, key) ==
    IF filters[key].t = "str" THEN Strip(filters[key].s, PyWhitespace) ELSE <<>>

\* The WHERE clause: the AND of one LIKE '%v%' term per non-empty v.
RowMatches(row, filters) ==
    \A key \in FilterKeys :
        FilterText(filters, key) # <<>> =>
            SqlLike(row[key], << "%" >> \o FilterText(filters, key) \o << "%" >>)

RECURSIVE TextLess(_, _)
TextLess(a, b) ==
    IF b = <<>> THEN FALSE
    ELSE IF a = <<>> THEN TRUE
    ELSE IF Head(a) = Head(b) THEN TextLess(Tail(a), Tail(b))
    ELSE Code(Head(a)) < Code(Head(b))

\* SQLite's order of values: NULL first, then numbers, then TEXT by memcmp.
ClassRank(v) == CASE v.t = "NULL" -> 0 [] v.t = "INTEGER" -> 1 [] OTHER -> 2

SqlLess(a, b) ==
    IF ClassRank(a) # ClassRank(b) THEN ClassRank(a) < ClassRank(b)
    ELSE CASE a.t = "INTEGER" -> a.n < b.n
           [] a.t = "TEXT" -> TextLess(a.s, b.s)
           [] OTHER -> FALSE

\* Mutation of OrderedDesc: ORDER BY createdAt without DESC.
OrderedDesc_Asc(rows) ==
    \A i, j \in 1..Len(rows) :
        i < j => ~ SqlLess(rows[j]["createdAt"], rows[i]["createdAt"])

\* ORDER BY createdAt DESC: no row is followed by a row with a greater key.
OrderedDesc(rows) ==
    \A i, j \in 1..Len(rows) :
        i < j => ~ SqlLess(rows[i]["createdAt"], rows[j]["createdAt"])

MatchingIdx(tbl, filters) == { i \in 1..Len(tbl) : RowMatches(tbl[i], filters) }

Orderings(S) ==
    { p \in [1..Cardinality(S) -> S] : \A i, j \in 1..Cardinality(S) : i # j => p[i] # p[j] }

\* query_reports: every list the SELECT may return (rows with equal keys
\* come in an order the engine does not fix), each row as a dict.
QueryReports(tbl, filters) ==
    { [i \in 1..Cardinality(MatchingIdx(tbl, filters)) |-> ItemOf(tbl[p[i]])] :
        p \in { q \in Orderings(MatchingIdx(tbl, filters)) :
                  OrderedDesc([i \in 1..Cardinality(MatchingIdx(tbl, filters)) |-> tbl[q[i]]]) } }

\* WHERE col IS NOT NULL AND TRIM(col) <> ''
NonBlank(v) == v.t # "NULL" /\ Strip(v.s, SqlTrimChars) # <<>>

\* Mutation of TacCount: COUNT(tacId) without DISTINCT.
TacCount_NoDistinct(tbl) ==
    Cardinality({ k \in 1..Len(tbl) : NonBlank(tbl[k]["tacId"]) })

\* SELECT COUNT(DISTINCT tacId) ...
TacCount(tbl) ==
    Cardinality({ tbl[i]["tacId"] : i \in { k \in 1..Len(tbl) : NonBlank(tbl[k]["tacId"]) } })

\* SELECT COUNT(*) ...
TestCount(tbl) ==
    Cardinality({ i \in 1..Len(tbl) : NonBlank(tbl[i]["testReportNumber"]) })

---------------------------------------------------------------------------
\* Inputs: request bodies, query strings and requests.

NoFields == [f \in Fields |-> Absent]

PayloadR1 ==
    [NoFields EXCEPT !["id"] = JStr(<< "R", "1" >>), !["tacId"] = JStr(<< "A", "B", "C" >>),
                     !["testReportNumber"] = JStr(<< "T", "1" >>),
                     !["packModel"] = JStr(<< "M" >>), !["createdAt"] = JInt(10)]

PayloadR1Again ==
    [NoFields EXCEPT !["id"] = JStr(<< "R", "1" >>), !["tacId"] = JStr(<< "A", "x", "C" >>),
                     !["createdAt"] = JInt(30)]

PayloadR2 ==
    [NoFields EXCEPT !["id"] = JStr(<< "R", "2" >>), !["tacId"] = JStr(<< "A", "B", "C" >>),
                     !["plantInspectionReportNumber"] = JStr(<< "P", "1" >>),
                     !["testReportNumber"] = JStr(<<>>),
                     !["packModel"] = JStr(<< "M" >>), !["createdAt"] = JInt(20)]

PayloadR2Again ==
    [NoFields EXCEPT !["id"] = JStr(<< "R", "2" >>), !["tacId"] = JStr(<< "A", "B", " " >>),
                     !["createdAt"] = JInt(10)]

PayloadNullId ==
    [NoFields EXCEPT !["id"] = JNull, !["tacId"] = JStr(<< " " >>),
                     !["testReportNumber"] = JStr(<< "\t" >>),
                     !["createdAt"] = JStr(<< "2", "0" >>)]

PayloadIntId ==
    [NoFields EXCEPT !["id"] = JInt(1), !["tacId"] = JInt(5), !["createdAt"] = JInt(30)]

PayloadTextId ==
    [NoFields EXCEPT !["id"] = JStr(<< "1" >>), !["tacId"] = JStr(<< "a", "b", "c" >>),
                     !["testReportNumber"] = JStr(<< "T", "1" >>),
                     !["createdAt"] = JStr(<< "x" >>)]

PayloadList ==
    [NoFields EXCEPT !["id"] = JStr(<< "R", "2" >>), !["user"] = JList]

\* JSON objects a POST body may hold.
Payloads ==
    { NoFields, PayloadR1, PayloadR1Again, PayloadR2, PayloadR2Again,
      PayloadNullId, PayloadIntId, PayloadTextId, PayloadList }

\* body: no bytes (Content-Length 0 or missing), a JSON object, bytes that
\* are not JSON, or JSON that is not an object.
NoBody == [kind |-> "none", payload |-> NoFields]
ObjectBody(p) == [kind |-> "object", payload |-> p]
MalformedBody == [kind |-> "malformed", payload |-> NoFields]
NonObjectBody == [kind |-> "nonobject", payload |-> NoFields]

NoQuery == [k \in FilterKeys |-> Absent]

\* Query strings of GET /api/reports, after parse_qs.
Queries ==
    { NoQuery,
      [NoQuery EXCEPT !["tacId"] = JStr(<< "B", "C" >>)],
      [NoQuery EXCEPT !["tacId"] = JStr(<< " ", "B", "\t" >>)],
      [NoQuery EXCEPT !["tacId"] = JStr(<< "b", "c" >>)],
      [NoQuery EXCEPT !["tacId"] = JStr(<< "A", "_", "C" >>)],
      [NoQuery EXCEPT !["tacId"] = JStr(<< "%" >>)],
      [NoQuery EXCEPT !["tacId"] = JStr(<< "B" >>), !["packModel"] = JStr(<< "M" >>)],
      [NoQuery EXCEPT !["tacId"] = JStr(<< "B" >>), !["packModel"] = JStr(<< "Z" >>)],
      [NoQuery EXCEPT !["tacId"] = JStr(<< " ", " " >>), !["testReportNumber"] = JStr(<< "T" >>)],
      [NoQuery EXCEPT !["plantInspectionReportNumber"] = JStr(<< "P" >>), !["packModel"] = JStr(<<>>)] }

Request(m, p, q, b) == [method |-> m, path |-> p, query |-> q, body |-> b]

Paths == { "/api/health", "/api/reports", "/api/stats", "/", "/index.html",
           "/api/reports/", "/nope" }

\* Requests a single connection sends.
Requests ==
    { Request("GET", p, NoQuery, NoBody) : p \in Paths }
      \cup { Request("GET", "/api/reports", q, NoBody) : q \in Queries }
      \cup { Request("POST", "/api/reports", NoQuery, ObjectBody(p)) : p \in Payloads }
      \cup { Request("POST", p, NoQuery, b) :
               p \in { "/api/reports", "/nope", "/api/health" },
               b \in { NoBody, MalformedBody, NonObjectBody } }
      \cup { Request(m, p, NoQuery, NoBody) :
               m \in { "OPTIONS", "PUT", "DELETE" }, p \in { "/api/reports", "/nope" } }

\* Requests of the connections that are served concurrently.
ConcRequests ==
    { Request("GET", p, NoQuery, NoBody) :
        p \in { "/api/health", "/api/reports", "/api/stats", "/", "/nope" } }
      \cup { Request("POST", "/api/reports", NoQuery, ObjectBody(p)) :
               p \in { PayloadR1, PayloadR1Again, PayloadList } }
      \cup { Request("POST", "/api/reports", NoQuery, b) :
               b \in { NoBody, MalformedBody, NonObjectBody } }
      \cup { Request("POST", "/nope", NoQuery, NoBody),
             Request("OPTIONS", "/nope", NoQuery, NoBody),
             Request("PUT", "/api/reports", NoQuery, NoBody) }

---------------------------------------------------------------------------
\* State.

\* ThreadingHTTPServer runs each request on a thread of its own.
Workers == { 1, 2 }

VARIABLES
    schema,     \* the reports table exists in inspection.db
    table,      \* the committed rows of reports, in rowid order
    writer,     \* the worker whose connection holds the write lock, or 0
    indexHtml,  \* ROOT / "index.html" exists
    pc,         \* where each worker is in its handler
    req,        \* the request each worker is serving
    local,      \* each handler's local variables: payload, tac_count, raised exception
    resp,       \* what each worker has sent to its client
    idFresh     \* history: the request's id was in no row when it was received

vars == << schema, table, writer, indexHtml, pc, req, local, resp, idFresh >>

\* Mutation of _cors: the Access-Control-Allow-Headers line is missing.
_cors_NoAllowHeaders ==
    { << "Access-Control-Allow-Origin", "*" >>,
      << "Access-Control-Allow-Methods", "GET, POST, OPTIONS" >> }

_cors ==
    { << "Access-Control-Allow-Origin", "*" >>,
      << "Access-Control-Allow-Methods", "GET, POST, OPTIONS" >>,
      << "Access-Control-Allow-Headers", "Content-Type" >> }

ContentType(v) == { << "Content-Type", v >> }

\* status 0: nothing has been sent. kind tells the body: "empty", "ok" for
\* {"ok": true}, "items" for a list of reports, "stats", "html" for the bytes
\* of index.html, "error" for the page send_error writes.
NoResp ==
    [status |-> 0, headers |-> {}, kind |-> "empty", items |-> <<>>, tac |-> 0, test |-> 0]

Response(status, headers, kind) == [NoResp EXCEPT !.status = status, !.headers = headers, !.kind = kind]

NoLocal == [payload |-> NoFields, tac_count |-> 0, exc |-> ""]

Init ==
    /\ schema = FALSE
    /\ table = <<>>
    /\ writer = 0
    /\ indexHtml \in BOOLEAN
    /\ pc = [w \in Workers |-> "idle"]
    /\ req = [w \in Workers |-> Request("GET", "/", NoQuery, NoBody)]
    /\ local = [w \in Workers |-> NoLocal]
    /\ resp = [w \in Workers |-> NoResp]
    /\ idFresh = [w \in Workers |-> FALSE]

IsInsert(r) == r.method = "POST" /\ r.path = "/api/reports"

\* Inserts under way that have not yet committed or failed.
PendingInserts == { w \in Workers : pc[w] \in { "dispatch", "insert", "commit" } /\ IsInsert(req[w]) }

Finish(w, response, exception) ==
    /\ pc' = [pc EXCEPT ![w] = "done"]
    /\ resp' = [resp EXCEPT ![w] = response]
    /\ local' = [local EXCEPT ![w].exc = exception]

---------------------------------------------------------------------------
\* Operations.

\* Mutation of init_db: the table is dropped and created again.
init_db_Recreate ==
    /\ schema' = TRUE
    /\ table' = <<>>
    /\ UNCHANGED << writer, indexHtml, pc, req, local, resp, idFresh >>

\* CREATE TABLE IF NOT EXISTS reports: main calls it before serving.
init_db ==
    /\ schema' = TRUE
    /\ UNCHANGED << table, writer, indexHtml, pc, req, local, resp, idFresh >>

\* The server reads a request from a connection and starts its handler.
Accept(w, R) ==
    /\ schema
    /\ pc[w] \in { "idle", "done" }
    /\ \E r \in R :
         /\ IsInsert(r) => Len(table) + Cardinality(PendingInserts) < MaxRows
         /\ req' = [req EXCEPT ![w] = r]
         /\ idFresh' = [idFresh EXCEPT ![w] =
                IsInsert(r) /\ r.body.kind = "object" /\ RowOf(r.body.payload)["id"].t # "NULL"
                  /\ ~ UniqueViolation(table, RowOf(r.body.payload))]
    /\ pc' = [pc EXCEPT ![w] = "dispatch"]
    /\ local' = [local EXCEPT ![w] = NoLocal]
    /\ resp' = [resp EXCEPT ![w] = NoResp]
    /\ UNCHANGED << schema, table, writer, indexHtml >>

\* Handler defines do_OPTIONS, do_GET and do_POST only: for any other method
\* BaseHTTPRequestHandler answers send_error(501) itself.
Unsupported(w) ==
    /\ pc[w] = "dispatch"
    /\ req[w].method \notin { "OPTIONS", "GET", "POST" }
    /\ Finish(w, Response(501, ContentType("text/html;charset=utf-8")
                                 \cup { << "Connection", "close" >> }, "error"), "")
    /\ UNCHANGED << schema, table, writer, indexHtml, req, idFresh >>

do_OPTIONS(w) ==
    /\ pc[w] = "dispatch"
    /\ req[w].method = "OPTIONS"
    /\ Finish(w, Response(204, _cors, "empty"), "")
    /\ UNCHANGED << schema, table, writer, indexHtml, req, idFresh >>

\* Mutation of NotFound: send_error(404), which writes an error page.
NotFound_SendError ==
    Response(404, ContentType("text/html;charset=utf-8") \cup { << "Connection", "close" >> }, "error")

\* send_response(404); _cors(); end_headers(): the last lines of do_GET and do_POST.
NotFound == Response(404, _cors, "empty")

\* filters = {k: (qs.get(k, [""])[0] or "") for k in [...]}
FiltersOf(query) ==
    [k \in FilterKeys |-> IF query[k].t = "str" THEN query[k] ELSE JStr(<<>>)]

do_GET(w) ==
    /\ pc[w] = "dispatch"
    /\ req[w].method = "GET"
    /\ \/ /\ req[w].path = "/api/health"
          /\ Finish(w, Response(200, _cors \cup ContentType("application/json"), "ok"), "")
       \/ /\ req[w].path = "/api/reports"
          /\ \E items \in QueryReports(table, FiltersOf(req[w].query)) :
               Finish(w, [Response(200, _cors \cup ContentType("application/json"), "items")
                            EXCEPT !.items = items], "")
       \/ /\ req[w].path = "/api/stats"
          /\ pc' = [pc EXCEPT ![w] = "stats"]
          /\ local' = [local EXCEPT ![w].tac_count = TacCount(table)]
          /\ UNCHANGED resp
       \/ /\ req[w].path \in { "/", "/index.html" }
          /\ indexHtml
          /\ Finish(w, Response(200, _cors \cup ContentType("text/html; charset=utf-8"), "html"), "")
       \/ /\ req[w].path \notin { "/api/health", "/api/reports", "/api/stats" }
          /\ req[w].path \in { "/", "/index.html" } => ~ indexHtml
          /\ Finish(w, NotFound, "")
    /\ UNCHANGED << schema, table, writer, indexHtml, req, idFresh >>

\* stats: the second SELECT, then do_GET's response.
stats(w) ==
    /\ pc[w] = "stats"
    /\ Finish(w, [Response(200, _cors \cup ContentType("application/json"), "stats")
                    EXCEPT !.tac = local[w].tac_count, !.test = TestCount(table)], "")
    /\ UNCHANGED << schema, table, writer, indexHtml, req, idFresh >>

\* do_POST up to the call of insert_report: the route, the body, json.loads.
do_POST(w) ==
    /\ pc[w] = "dispatch"
    /\ req[w].method = "POST"
    /\ \/ /\ req[w].path # "/api/reports"
          /\ Finish(w, NotFound, "")
       \/ /\ req[w].path = "/api/reports"
          /\ req[w].body.kind = "malformed"
          /\ Finish(w, NoResp, "JSONDecodeError")
       \/ /\ req[w].path = "/api/reports"
          /\ req[w].body.kind = "nonobject"
          /\ Finish(w, NoResp, "AttributeError")
       \/ /\ req[w].path = "/api/reports"
          /\ req[w].body.kind \in { "none", "object" }
          /\ pc' = [pc EXCEPT ![w] = "insert"]
          /\ local' = [local EXCEPT ![w].payload =
                IF req[w].body.kind = "none" THEN NoFields ELSE req[w].body.payload]
          /\ UNCHANGED resp
    /\ UNCHANGED << schema, table, writer, indexHtml, req, idFresh >>

\* Mutation of insert_execute: the id is checked without taking the write lock.
insert_execute_NoLock(w) ==
    /\ pc[w] = "insert"
    /\ \/ /\ \E f \in Fields : ~ Bindable(PayloadGet(local[w].payload, f))
          /\ local' = [local EXCEPT ![w].exc = "InterfaceError"]
          /\ pc' = [pc EXCEPT ![w] = "close"]
       \/ /\ \A f \in Fields : Bindable(PayloadGet(local[w].payload, f))
          /\ UniqueViolation(table, RowOf(local[w].payload))
          /\ local' = [local EXCEPT ![w].exc = "IntegrityError"]
          /\ pc' = [pc EXCEPT ![w] = "close"]
       \/ /\ \A f \in Fields : Bindable(PayloadGet(local[w].payload, f))
          /\ ~ UniqueViolation(table, RowOf(local[w].payload))
          /\ pc' = [pc EXCEPT ![w] = "commit"]
          /\ UNCHANGED local
    /\ UNCHANGED << schema, table, writer, indexHtml, req, resp, idFresh >>

\* insert_report: conn.execute(INSERT ...). A parameter of an unsupported
\* type raises before the statement runs; the statement waits for the write
\* lock, then fails on a duplicate id or leaves the row pending. The wait
\* ends with "database is locked" when it outlasts sqlite3.connect's timeout.
insert_execute(w) ==
    /\ pc[w] = "insert"
    /\ \/ /\ \E f \in Fields : ~ Bindable(PayloadGet(local[w].payload, f))
          /\ local' = [local EXCEPT ![w].exc = "InterfaceError"]
          /\ pc' = [pc EXCEPT ![w] = "close"]
          /\ UNCHANGED writer
       \/ /\ \A f \in Fields : Bindable(PayloadGet(local[w].payload, f))
          /\ writer # 0
          /\ local' = [local EXCEPT ![w].exc = "OperationalError"]
          /\ pc' = [pc EXCEPT ![w] = "close"]
          /\ UNCHANGED writer
       \/ /\ \A f \in Fields : Bindable(PayloadGet(local[w].payload, f))
          /\ writer = 0
          /\ UniqueViolation(table, RowOf(local[w].payload))
          /\ writer' = w
          /\ local' = [local EXCEPT ![w].exc = "IntegrityError"]
          /\ pc' = [pc EXCEPT ![w] = "close"]
       \/ /\ \A f \in Fields : Bindable(PayloadGet(local[w].payload, f))
          /\ writer = 0
          /\ ~ UniqueViolation(table, RowOf(local[w].payload))
          /\ writer' = w
          /\ pc' = [pc EXCEPT ![w] = "commit"]
          /\ UNCHANGED local
    /\ UNCHANGED << schema, table, indexHtml, req, resp, idFresh >>

\* insert_report: conn.commit() appends the pending row and frees the lock.
insert_commit(w) ==
    /\ pc[w] = "commit"
    /\ table' = Append(table, RowOf(local[w].payload))
    /\ writer' = 0
    /\ pc' = [pc EXCEPT ![w] = "close"]
    /\ UNCHANGED << schema, indexHtml, req, local, resp, idFresh >>

\* insert_report: finally conn.close() rolls back what is uncommitted; an
\* exception then leaves do_POST, and the server sends nothing.
insert_close(w) ==
    /\ pc[w] = "close"
    /\ writer' = IF writer = w THEN 0 ELSE writer
    /\ pc' = [pc EXCEPT ![w] = IF local[w].exc = "" THEN "respond" ELSE "done"]
    /\ UNCHANGED << schema, table, indexHtml, req, local, resp, idFresh >>

\* do_POST after insert_report returned.
do_POST_respond(w) ==
    /\ pc[w] = "respond"
    /\ Finish(w, Response(201, _cors \cup ContentType("application/json"), "ok"), "")
    /\ UNCHANGED << schema, table, writer, indexHtml, req, idFresh >>

Handle(w) ==
    \/ Unsupported(w)
    \/ do_OPTIONS(w)
    \/ do_GET(w)
    \/ stats(w)
    \/ do_POST(w)
    \/ insert_execute(w)
    \/ insert_commit(w)
    \/ insert_close(w)
    \/ do_POST_respond(w)

\* One connection at a time.
Next == init_db \/ Accept(1, Requests) \/ Handle(1)

Spec == Init /\ [][Next]_vars

\* Two connections served concurrently.
ConcNext == init_db \/ \E w \in Workers : Accept(w, ConcRequests) \/ Handle(w)

ConcSpec == Init /\ [][ConcNext]_vars

---------------------------------------------------------------------------
\* Properties.

\* Some row of tbl has the id v, as query_reports would show it.
HasId(tbl, v) == \E i \in 1..Len(tbl) : ToJson(tbl[i]["id"]) = v

\* The step the worker takes from its INSERT fails: it raises, or waits, and
\* the table keeps its rows as they are.
InsertFails(w) ==
    /\ table' = table
    /\ pc'[w] \in { "insert", "close" }
    /\ pc'[w] = "close" => local'[w].exc # ""

\* A worker that raised ends without a response and without a new row.
RaisedSendsNothing(w) ==
    (pc[w] = "close" /\ local[w].exc # "")
        => (table' = table /\ pc'[w] = "done" /\ resp'[w].status = 0)

\* C1 as stated: an insert whose payload's id equals the id of a stored row,
\* a missing id and the null id of a stored row included, fails: no row is
\* added, no response is sent.
C1_Original ==
    [][\A w \in Workers :
         /\ (pc[w] = "insert" /\ HasId(table, PayloadGet(local[w].payload, "id")))
              => InsertFails(w)
         /\ RaisedSendsNothing(w)]_vars

\* C1 amended: an insert whose payload has a non-null id equal to the id of
\* a stored row fails: the INSERT raises, the table keeps its rows as they
\* are, and the worker ends without having sent a response.
C1_DuplicateIdRejected ==
    [][\A w \in Workers :
         /\ ( /\ pc[w] = "insert"
              /\ PayloadGet(local[w].payload, "id").t # "null"
              /\ HasId(table, PayloadGet(local[w].payload, "id")) )
              => InsertFails(w)
         /\ RaisedSendsNothing(w)]_vars

\* C1 witness: a POST with the id of a stored row has failed on the constraint.
C1_Witness ==
    /\ pc[1] = "done"
    /\ IsInsert(req[1])
    /\ local[1].exc = "IntegrityError"
    /\ resp[1].status = 0
    /\ HasId(table, PayloadGet(local[1].payload, "id"))

\* The worker has answered 201 to a POST /api/reports.
InsertDone(w) == pc[w] = "done" /\ IsInsert(req[w]) /\ resp[w].status = 201

\* The table before the last committed row was added.
Before == SubSeq(table, 1, Len(table) - 1)

\* What the claim expects to read back: the payload's value, null if omitted.
Expected(payload) == [f \in Fields |-> PayloadGet(payload, f)]

\* query_reports({}) returns exactly one item with the payload's id, equal to
\* the payload field by field.
RoundTrip(payload) ==
    \A items \in QueryReports(table, NoQuery) :
        /\ Cardinality({ i \in 1..Len(items) : items[i]["id"] = PayloadGet(payload, "id") }) = 1
        /\ \A i \in 1..Len(items) :
             items[i]["id"] = PayloadGet(payload, "id") => items[i] = Expected(payload)

\* Every present field holds a value of its column's type, or null.
WellTyped(payload) ==
    \A f \in Fields :
        PayloadGet(payload, f).t \in { "null", IF ColumnType(f) = "INTEGER" THEN "int" ELSE "str" }

\* C2 as stated: after a successful insert of any payload whose id was in no
\* row, the unfiltered query returns exactly one item with that id, equal to
\* the payload's fields.
C2_Original ==
    (InsertDone(1) /\ ~ HasId(Before, PayloadGet(local[1].payload, "id")))
        => RoundTrip(local[1].payload)

\* C2 amended: the round trip holds for a payload whose present fields hold
\* strings (createdAt: an integer) or null.
C2_RoundTrip ==
    ( /\ InsertDone(1)
      /\ WellTyped(local[1].payload)
      /\ ~ HasId(Before, PayloadGet(local[1].payload, "id")) )
        => RoundTrip(local[1].payload)

\* C2 witness: a well-typed payload was inserted into a table that held rows.
C2_Witness ==
    /\ InsertDone(1)
    /\ local[1].payload = PayloadR2
    /\ Len(table) = 3
    /\ table[3] = RowOf(PayloadR2)

\* The worker has answered 200 to a GET /api/reports.
ReportsDone(w) ==
    pc[w] = "done" /\ req[w].method = "GET" /\ req[w].path = "/api/reports" /\ resp[w].status = 200

FoldCase(txt) == [i \in 1..Len(txt) |-> Lower(txt[i])]

\* sub occurs in txt, letters compared without regard to case.
Contains(txt, sub) ==
    \E i \in 0..(Len(txt) - Len(sub)) :
        SubSeq(FoldCase(txt), i + 1, i + Len(sub)) = FoldCase(sub)

\* The filter key is present and not blank once whitespace is trimmed.
Active(query, key) == query[key].t = "str" /\ Strip(query[key].s, PyWhitespace) # <<>>

\* The row's column contains the trimmed value of every active filter.
Satisfies(row, query) ==
    \A key \in FilterKeys :
        Active(query, key) =>
            row[key].t = "TEXT" /\ Contains(row[key].s, Strip(query[key].s, PyWhitespace))

\* C3 as stated: GET /api/reports returns exactly the rows whose columns
\* contain the trimmed value of every active filter as a substring.
C3_Original ==
    ReportsDone(1) =>
        LET sat == { i \in 1..Len(table) : Satisfies(table[i], req[1].query) }
        IN  /\ Len(resp[1].items) = Cardinality(sat)
            /\ \A j \in 1..Len(resp[1].items) : \E i \in sat : resp[1].items[j] = ItemOf(table[i])
            /\ \A i \in sat : \E j \in 1..Len(resp[1].items) : resp[1].items[j] = ItemOf(table[i])

\* C4: in the list GET /api/reports returns, of two adjacent items with an
\* integer createdAt the first has the greater or equal createdAt.
C4_OrderedByCreatedAt ==
    ReportsDone(1) =>
        \A i \in 1..(Len(resp[1].items) - 1) :
            (resp[1].items[i]["createdAt"].t = "int" /\ resp[1].items[i + 1]["createdAt"].t = "int")
                => resp[1].items[i]["createdAt"].n >= resp[1].items[i + 1]["createdAt"].n

\* C4 witness: rows inserted with createdAt 10, 30, 20 are listed as 30, 20, 10.
C4_Witness ==
    /\ ReportsDone(1)
    /\ Len(table) = 3
    /\ table[1]["createdAt"] = SqlInt(10)
    /\ table[2]["createdAt"] = SqlInt(30)
    /\ table[3]["createdAt"] = SqlInt(20)
    /\ Len(resp[1].items) = 3
    /\ resp[1].items[1]["createdAt"] = JInt(30)
    /\ resp[1].items[3]["createdAt"] = JInt(10)

\* The value is null, or nothing is left of it once its spaces are trimmed.
Blank(v) == v.t = "NULL" \/ \A i \in 1..Len(v.s) : v.s[i] = " "

RECURSIVE CountTestReports(_)
CountTestReports(tbl) ==
    IF tbl = <<>> THEN 0
    ELSE CountTestReports(Tail(tbl)) + (IF Blank(Head(tbl)["testReportNumber"]) THEN 0 ELSE 1)

\* The worker has answered GET /api/stats.
StatsDone(w) == pc[w] = "done" /\ resp[w].kind = "stats"

Routed(r) ==
    \/ r.method = "OPTIONS"
    \/ r.method = "GET" /\ r.path \in { "/api/health", "/api/reports", "/api/stats" }
    \/ r.method = "GET" /\ r.path \in { "/", "/index.html" } /\ indexHtml
    \/ r.method = "POST" /\ r.path = "/api/reports"

ClaimedCors ==
    { << "Access-Control-Allow-Origin", "*" >>,
      << "Access-Control-Allow-Methods", "GET, POST, OPTIONS" >>,
      << "Access-Control-Allow-Headers", "Content-Type" >> }

\* C7 as stated: every response sent carries the three CORS headers.
C7_Original ==
    \A w \in Workers : resp[w].status # 0 => ClaimedCors \subseteq resp[w].headers

\* C7 amended: every 200, 201, 204 and 404 response carries the three CORS
\* headers; the 501 sent for an unsupported method carries none of them, and
\* a handler that raised has sent no response.
C7_CorsOnHandlerResponses ==
    \A w \in Workers :
        /\ resp[w].status \in { 0, 200, 201, 204, 404, 501 }
        /\ resp[w].status \in { 200, 201, 204, 404 } => ClaimedCors \subseteq resp[w].headers
        /\ resp[w].status = 501 => ClaimedCors \cap resp[w].headers = {}
        /\ local[w].exc # "" => resp[w].status = 0

\* C7 witness: a POST to an unknown path was answered 404 with the headers.
C7_Witness ==
    /\ pc[1] = "done"
    /\ req[1].method = "POST"
    /\ resp[1].status = 404
    /\ ClaimedCors \subseteq resp[1].headers

\* C8: the table changes only by one committed INSERT appending one row, the
\* row of the committing worker's payload; every other step, init_db
\* included, leaves every row as it is.
C8_AppendOnly ==
    [][\/ table' = table
       \/ \E w \in Workers :
            /\ pc[w] = "commit"
            /\ pc'[w] = "close"
            /\ table' = Append(table, RowOf(local[w].payload))]_vars

\* C8 witness: two rows are stored, and a POST has failed on the constraint
\* while another worker has been answered a listing.
C8_Witness ==
    /\ Len(table) >= 2
    /\ pc[1] = "done" /\ local[1].exc = "IntegrityError"
    /\ pc[2] = "done" /\ resp[2].kind = "items" /\ Len(resp[2].items) >= 2

\* Both workers have finished a POST of an object with the same non-null id
\* that no row had when either request was received.
RacedSameId(w1, w2) ==
    /\ w1 # w2
    /\ pc[w1] = "done" /\ pc[w2] = "done"
    /\ IsInsert(req[w1]) /\ IsInsert(req[w2])
    /\ idFresh[w1] /\ idFresh[w2]
    /\ PayloadGet(local[w1].payload, "id").t # "null"
    /\ PayloadGet(local[w1].payload, "id") = PayloadGet(local[w2].payload, "id")

\* One row has the id, and it is the row of the payload.
OnlyRowWithId(payload) ==
    /\ Cardinality({ i \in 1..Len(table) : ToJson(table[i]["id"]) = PayloadGet(payload, "id") }) = 1
    /\ \A i \in 1..Len(table) :
         ToJson(table[i]["id"]) = PayloadGet(payload, "id") => ItemOf(table[i]) = Expected(payload)

\* C9 as stated: of two concurrent POSTs with the same new id one answers
\* 201 and the other fails with a constraint error, and the table holds one
\* row with the id, the winner's.
C9_Original ==
    \A w1, w2 \in Workers :
        RacedSameId(w1, w2) =>
            \E win \in { w1, w2 } : \E lose \in { w1, w2 } \ { win } :
                /\ resp[win].status = 201
                /\ resp[lose].status = 0
                /\ local[lose].exc = "IntegrityError"
                /\ OnlyRowWithId(local[win].payload)

\* C9 amended: when every value of both payloads can be bound, one answers
\* 201 and the other fails, with the constraint error or with "database is
\* locked", and sends nothing; the table holds one row with the id, the
\* winner's.
C9_OneWinner ==
    \A w1, w2 \in Workers :
        ( /\ RacedSameId(w1, w2)
          /\ \A w \in { w1, w2 } : \A f \in Fields : Bindable(PayloadGet(local[w].payload, f)) )
            => \E win \in { w1, w2 } : \E lose \in { w1, w2 } \ { win } :
                /\ resp[win].status = 201
                /\ resp[lose].status = 0
                /\ local[lose].exc \in { "IntegrityError", "OperationalError" }
                /\ OnlyRowWithId(local[win].payload)

\* C9 witness: two POSTs of different reports with one id raced; the second
\* worker won.
C9_Witness ==
    /\ RacedSameId(1, 2)
    /\ local[1].payload = PayloadR1 /\ local[1].exc = "IntegrityError"
    /\ local[2].payload = PayloadR1Again /\ resp[2].status = 201

AllNullRow == [f \in Fields |-> SqlNull]

\* C10: a POST /api/reports without a body is parsed as {}, its INSERT
\* succeeds whatever the table holds, its commit appends exactly one row of
\* 14 nulls, and it is answered 201 {"ok": true}.
C10_EmptyBodyInsertsNullRow ==
    [][\A w \in Workers :
         (IsInsert(req[w]) /\ req[w].body.kind = "none" /\ pc[w] \notin { "idle", "done" }) =>
            /\ pc[w] = "dispatch" => (pc'[w] \in { "dispatch", "insert" } /\ table' = table)
            /\ pc[w] = "insert" => (pc'[w] \in { "insert", "commit" } /\ table' = table)
            /\ pc[w] = "commit" => (pc'[w] = "commit" \/ table' = Append(table, AllNullRow))
            /\ pc[w] = "close" => (pc'[w] \in { "close", "respond" } /\ table' = table)
            /\ pc[w] = "respond" =>
                 \/ pc'[w] = "respond"
                 \/ /\ pc'[w] = "done"
                    /\ resp'[w].status = 201
                    /\ resp'[w].kind = "ok"
                    /\ table' = table]_vars

\* C10 witness: a second POST without a body was answered 201 and the table
\* holds two rows of nulls.
C10_Witness ==
    /\ InsertDone(1)
    /\ req[1].body.kind = "none"
    /\ Len(table) >= 2
    /\ table[Len(table)] = AllNullRow
    /\ table[1] = AllNullRow

====
